---- MODULE Spec2Model ----
(***************************************************************************)
(* Code_Arena gateway: the FastAPI app of main.py, the routes of           *)
(* app/api/routers.py and the exception handlers of                        *)
(* app/utils/exception_handler.py.                                         *)
(*                                                                         *)
(* Strings are sequences of tokens (each token a piece of text), so that   *)
(* f-strings are concatenations, str.splitlines / str.strip / re.search    *)
(* are computed on the tokens, and an empty string is the empty sequence.  *)
(***************************************************************************)
EXTENDS Integers, Sequences, FiniteSets, TLC

VARIABLES
    entry,               \* the ASGI target the server was started with
    base_path,           \* settings.base_path
    modules,             \* the modules imported so far
    exception_handlers,  \* app.exception_handlers: class key -> handler
    user_middleware,     \* app.user_middleware, outermost first
    phase,               \* "boot" | "idle" | "responded"
    problems_json,       \* the file problems.json on disk
    request,             \* the request being answered
    fault,               \* the fault that escaped the route body (or NoFault)
    invoked,             \* the exception handlers run for it, in order
    log,                 \* the log records emitted while answering
    session,             \* the write transaction of the request
    upstream_calls,      \* the upstream's answers to the calls made for the request
    response             \* the response sent

vars == << entry, base_path, modules, exception_handlers, user_middleware,
           phase, problems_json, request, fault, invoked, log, session,
           upstream_calls, response >>

\* ------------------------------------------------------------------ bounds

\* longest <field> and <value> (in tokens) of a 'Key (<field>)=(<value>)' text
MaxPart == 2

\* ------------------------------------------------------------------ text

Whitespace == {" ", "\n"}

\* s.startswith(p)
StartsWith(s, p) == /\ Len(p) <= Len(s)
                    /\ SubSeq(s, 1, Len(p)) = p

\* p occurs in s as a contiguous piece
Contains(s, p) == \E i \in 0..(Len(s) - Len(p)) : SubSeq(s, i + 1, i + Len(p)) = p

\* str.splitlines(): the lines of s; the empty string has no line at all
splitlines(s) ==
    LET brk   == {i \in 1..Len(s) : s[i] = "\n"}
        RECURSIVE From(_)
        From(i) == IF i > Len(s) THEN << >>
                   ELSE LET nxt == IF \E j \in brk : j >= i
                                   THEN CHOOSE j \in brk : j >= i /\ \A k \in brk : k >= i => j <= k
                                   ELSE Len(s) + 1
                        IN  << SubSeq(s, i, nxt - 1) >> \o From(nxt + 1)
    IN  From(1)

\* str.strip(): s without its leading and trailing whitespace
strip(s) ==
    LET keep == {i \in 1..Len(s) : s[i] \notin Whitespace}
    IN  IF keep = {} THEN << >>
        ELSE LET lo == CHOOSE i \in keep : \A j \in keep : i <= j
                 hi == CHOOSE i \in keep : \A j \in keep : j <= i
             IN  SubSeq(s, lo, hi)

\* the length of the longest run of tokens other than ")" starting at s[i]
RECURSIVE RunLen(_, _)
RunLen(s, i) == IF i > Len(s) \/ s[i] = ")" THEN 0 ELSE 1 + RunLen(s, i + 1)

NoMatch == [found |-> FALSE, field |-> << >>, value |-> << >>]

\* The pattern  <lit> \( F \)=\( [^)]+ \)  tried at position i of s, where F
\* is [^)]+ when col = << >> and the literal col otherwise; a, b and c are
\* where its three brackets "(" F ")" ... ")" must stand.
MatchEnd(s, i, lit, col, a, b, c) ==
    IF /\ a <= Len(s)
       /\ SubSeq(s, i, a - 1) = lit
       /\ s[a] = "("
       /\ b - a - 1 >= 1
       /\ b + 2 <= Len(s)
       /\ (col # << >> => SubSeq(s, a + 1, b - 1) = col)
       /\ s[b] = ")" /\ s[b + 1] = "=" /\ s[b + 2] = "("
       /\ c - b - 3 >= 1
       /\ c <= Len(s) /\ s[c] = ")"
    THEN [found |-> TRUE, field |-> SubSeq(s, a + 1, b - 1),
          value |-> SubSeq(s, b + 3, c - 1)]
    ELSE NoMatch

MatchValue(s, i, lit, col, a, b) ==
    MatchEnd(s, i, lit, col, a, b, b + 3 + RunLen(s, b + 3))

MatchField(s, i, lit, col, a) ==
    MatchValue(s, i, lit, col, a,
               a + 1 + (IF col = << >> THEN RunLen(s, a + 1) ELSE Len(col)))

MatchAt(s, i, lit, col) == MatchField(s, i, lit, col, i + Len(lit))

\* re.search: the leftmost match
re_search(s, lit, col) ==
    LET hits == {i \in 1..Len(s) : MatchAt(s, i, lit, col).found}
    IN  IF hits = {} THEN NoMatch
        ELSE MatchAt(s, CHOOSE i \in hits : \A j \in hits : i <= j, lit, col)

\* ------------------------------------------------------- exception classes

\* type(exc).__mro__ up to Exception, most specific class first.
\* "HTTPException" is fastapi.HTTPException, "StarletteHTTPException" its base;
\* asyncio.TimeoutError is the builtin TimeoutError.
MRO(cls) ==
    CASE cls = "RequestValidationError" -> << "RequestValidationError", "ValidationException", "Exception" >>
      [] cls = "HTTPException"          -> << "HTTPException", "StarletteHTTPException", "Exception" >>
      [] cls = "StarletteHTTPException" -> << "StarletteHTTPException", "Exception" >>
      [] cls = "IntegrityError"   -> << "IntegrityError", "DatabaseError", "DBAPIError", "StatementError", "SQLAlchemyError", "Exception" >>
      [] cls = "DataError"        -> << "DataError", "DatabaseError", "DBAPIError", "StatementError", "SQLAlchemyError", "Exception" >>
      [] cls = "OperationalError" -> << "OperationalError", "DatabaseError", "DBAPIError", "StatementError", "SQLAlchemyError", "Exception" >>
      [] cls = "ProgrammingError" -> << "ProgrammingError", "DatabaseError", "DBAPIError", "StatementError", "SQLAlchemyError", "Exception" >>
      [] cls = "InternalError"    -> << "InternalError", "DatabaseError", "DBAPIError", "StatementError", "SQLAlchemyError", "Exception" >>
      [] cls = "InterfaceError"   -> << "InterfaceError", "DBAPIError", "StatementError", "SQLAlchemyError", "Exception" >>
      [] cls = "NoResultFound"    -> << "NoResultFound", "InvalidRequestError", "SQLAlchemyError", "Exception" >>
      [] cls = "TimeoutError"     -> << "TimeoutError", "OSError", "Exception" >>
      [] cls = "PermissionError"  -> << "PermissionError", "OSError", "Exception" >>
      [] cls = "FileNotFoundError" -> << "FileNotFoundError", "OSError", "Exception" >>
      [] cls = "ExpiredSignatureError" -> << "ExpiredSignatureError", "JWTError", "Exception" >>
      [] cls = "JWTError"         -> << "JWTError", "Exception" >>
      [] cls = "JSONDecodeError"  -> << "JSONDecodeError", "ValueError", "Exception" >>
      [] cls = "ValueError"       -> << "ValueError", "Exception" >>
      [] cls = "TypeError"        -> << "TypeError", "Exception" >>
      [] cls = "KeyError"         -> << "KeyError", "LookupError", "Exception" >>
      [] cls = "IndexError"       -> << "IndexError", "LookupError", "Exception" >>
      [] cls = "AttributeError"   -> << "AttributeError", "Exception" >>
      [] cls = "RuntimeError"     -> << "RuntimeError", "Exception" >>
      [] cls = "HTTPStatusError"  -> << "HTTPStatusError", "HTTPError", "Exception" >>
      [] cls = "ReadTimeout"      -> << "ReadTimeout", "TimeoutException", "TransportError", "RequestError", "HTTPError", "Exception" >>
      [] cls = "ConnectError"     -> << "ConnectError", "NetworkError", "TransportError", "RequestError", "HTTPError", "Exception" >>
      [] OTHER                    -> << >>

isinstance(exc, cls) == \E i \in 1..Len(MRO(exc.cls)) : MRO(exc.cls)[i] = cls

\* ------------------------------------------------------------------ faults

\* orig.diag of a psycopg2 error; None and "" are both << >> (every use is a
\* truth test or an `or`)
NoDiag == [present |-> FALSE, column_name |-> << >>,
           message_primary |-> << >>, message_detail |-> << >>]

Diag(col, primary, detail) ==
    [present |-> TRUE, column_name |-> col,
     message_primary |-> primary, message_detail |-> detail]

\* An exception object. text is str(exc) (str(exc.orig) for a DBAPI error);
\* status_code/detail are those of an HTTPException; lineno/colno/msg those of
\* a JSONDecodeError; errors is RequestValidationError.errors().
Exc(cls, text) ==
    [cls |-> cls, text |-> text, status_code |-> 0, detail |-> << >>,
     diag |-> NoDiag, pgerror |-> << >>, lineno |-> 0, colno |-> 0,
     msg |-> << >>, errors |-> << >>]

NoFault == Exc("none", << >>)

HTTPExc(cls, status, detail) ==
    [Exc(cls, detail) EXCEPT !.status_code = status, !.detail = detail]

DBExc(cls, text, diag, pgerror) ==
    [Exc(cls, text) EXCEPT !.diag = diag, !.pgerror = pgerror]

JSONExc(lineno, colno, msg) ==
    [Exc("JSONDecodeError", msg) EXCEPT !.lineno = lineno, !.colno = colno, !.msg = msg]

ValidationExc(errors) ==
    [Exc("RequestValidationError", errors) EXCEPT !.errors = errors]

\* --------------------------------------------------------------- responses

NoBody == [kind |-> "none", items |-> << >>]

\* A response: media is "json", "text", "redirect" or "none" (nothing sent yet);
\* acao / acac are the Access-Control-Allow-Origin / -Credentials headers
\* ("none" when absent, "origin" when the request's Origin is echoed).
Resp(status, media, detail, errors, body, acao, acac, location) ==
    [status_code |-> status, media |-> media, detail |-> detail,
     errors |-> errors, body |-> body, acao |-> acao, acac |-> acac,
     location |-> location]

NoResponse == Resp(0, "none", << >>, << >>, NoBody, "none", "none", << >>)

\* JSONResponse(content={"detail": detail[, "errors": errors]}, status_code)
\* with the two fixed headers
json_response_with_cors(detail, errors, status_code) ==
    Resp(status_code, "json", detail, errors, NoBody, "*", "true", << >>)

\* What running a handler gives: a response, or the exception it raised;
\* with the log records it emitted and what became of its rollback attempt
\* ("none": no attempt, "failed": attempted and raised, "done": rolled back).
Returned(resp, logs, rollback) ==
    [raised |-> FALSE, resp |-> resp, exc |-> NoFault, log |-> logs, rollback |-> rollback]

Raised(exc, logs, rollback) ==
    [raised |-> TRUE, resp |-> NoResponse, exc |-> exc, log |-> logs, rollback |-> rollback]

LogRec(level, event) == [level |-> level, event |-> event]

\* x or y on strings
Or(x, y) == IF x # << >> THEN x ELSE y

\* lst[0] of an empty list
IndexError == Exc("IndexError", << "list index out of range" >>)

\* ---------------------------------------------------------------- handlers

validation_exception_handler(exc) ==
    Returned(json_response_with_cors(<< "Invalid request format" >>, exc.errors, 422),
             << LogRec("warning", "Validation error") >>, "none")

http_exception_handler(exc) ==
    Returned(json_response_with_cors(exc.detail, << >>, exc.status_code),
             << LogRec(IF exc.status_code = 401 THEN "warning" ELSE "error", "HTTP error") >>,
             "none")

\* get_write_session() called outside an `async for`: an async generator
\* object, which is no session
get_write_session ==
    [type |-> "async_generator",
     attributes |-> {"__aiter__", "__anext__", "asend", "athrow", "aclose"}]

database_exception_handler(exc) ==
    LET s  == get_write_session
        ok == "rollback" \in s.attributes
    IN  Returned(json_response_with_cors(
                     << "A database error occurred. Please try again later." >>, << >>, 500),
                 << LogRec("error", "Database error") >>
                   \o (IF ok THEN << >>
                       ELSE << LogRec("error", "Error during session rollback") >>),
                 IF ok THEN "done" ELSE "failed")

\* the message once a column name came with the fault: m is the match of
\* \(<col>\)=\(<val>\) in the DETAIL text
column_message(col, m) ==
    IF m.found /\ m.value # << >>
    THEN col \o << " '" >> \o m.value \o << "' already exists." >>
    ELSE << "Duplicate value for '" >> \o col \o << "'." >>

\* key_message with the two groups taken in the wrong order
key_message_swapped(m) ==
    IF m.found
    THEN m.value \o << " '" >> \o m.field \o << "' already exists." >>
    ELSE << "A record with that value already exists." >>

\* the message without a column name: m is the match of
\* Key \(<field>\)=\(<value>\) in str(orig)
key_message(m) ==
    IF m.found
    THEN m.field \o << " '" >> \o m.value \o << "' already exists." >>
    ELSE << "A record with that value already exists." >>

integrity_error_handler(exc) ==
    Returned(json_response_with_cors(
                 IF exc.diag.present /\ exc.diag.column_name # << >>
                 THEN column_message(exc.diag.column_name,
                                     re_search(Or(exc.pgerror, exc.text), << >>,
                                               exc.diag.column_name))
                 ELSE key_message(re_search(exc.text, << "Key " >>, << >>)),
                 << >>, 409),
             << LogRec("warning", "Database Integrity Error") >>, "none")

data_error_handler(exc) ==
    LET diag  == exc.diag
        logs  == << LogRec("warning", "Database Data Error") >>
        lines == splitlines(exc.text)
    IN  IF diag.present /\ diag.column_name # << >>
        THEN LET col == diag.column_name
                 msg == Or(diag.message_primary, diag.message_detail)
                 error_message ==
                     IF msg # << >>
                     THEN << "Invalid data for '" >> \o col \o << "': " >> \o msg
                     ELSE << "Invalid data for column '" >> \o col \o << "'." >>
             IN  Returned(json_response_with_cors(error_message, << >>, 422), logs, "none")
        ELSE IF lines = << >>
        THEN Raised(IndexError, logs, "none")
        ELSE Returned(json_response_with_cors(
                          Or(lines[1], << "Invalid data format." >>), << >>, 422),
                      logs, "none")

operational_error_handler(exc) ==
    LET diag  == exc.diag
        logs  == << LogRec("error", "Operational Database Error") >>
        lines == splitlines(exc.text)
    IN  IF ~diag.present /\ lines = << >>
        THEN Raised(IndexError, logs, "none")
        ELSE LET msg == IF diag.present
                        THEN Or(diag.message_primary, Or(diag.message_detail, exc.text))
                        ELSE lines[1]
             IN  Returned(json_response_with_cors(
                              << "Database connection error: " >> \o msg, << >>, 503),
                          logs, "none")

programming_error_handler(exc) ==
    LET diag   == exc.diag
        logs   == << LogRec("error", "Database Programming Error") >>
        msg    == IF diag.present THEN Or(diag.message_primary, diag.message_detail)
                  ELSE << >>
        first  == IF msg # << >> THEN splitlines(msg)[1] ELSE << >>
        lines  == splitlines(exc.text)
    IN  IF first = << >> /\ lines = << >>
        THEN Raised(IndexError, logs, "none")
        ELSE LET detail == IF first # << >> THEN first ELSE lines[1]
             IN  Returned(json_response_with_cors(
                              << "Database query error: " >> \o detail, << >>, 500),
                          logs, "none")

interface_error_handler(exc) ==
    LET diag  == exc.diag
        logs  == << LogRec("error", "Database Interface Error") >>
        lines == splitlines(exc.text)
    IN  IF ~diag.present /\ lines = << >>
        THEN Raised(IndexError, logs, "none")
        ELSE LET msg == IF diag.present
                        THEN Or(diag.message_primary, Or(diag.message_detail, exc.text))
                        ELSE lines[1]
             IN  Returned(json_response_with_cors(
                              << "Database interface error: " >> \o msg, << >>, 503),
                          logs, "none")

timeout_error_handler(exc) ==
    Returned(json_response_with_cors(
                 << "Request processing timed out. Please try again later." >>, << >>, 504),
             << LogRec("error", "Timeout Error") >>, "none")

\* permission_error_handler without its `or` fallback
permission_error_handler_bare(exc) ==
    Returned(json_response_with_cors(exc.text, << >>, 403),
             << LogRec("warning", "Permission Denied") >>, "none")

permission_error_handler(exc) ==
    Returned(json_response_with_cors(
                 Or(exc.text, << "You do not have permission to perform this action." >>),
                 << >>, 403),
             << LogRec("warning", "Permission Denied") >>, "none")

value_error_handler(exc) ==
    Returned(json_response_with_cors(
                 Or(strip(exc.text), << "Invalid value provided." >>), << >>, 400),
             << LogRec("warning", "ValueError") >>, "none")

type_error_handler(exc) ==
    Returned(json_response_with_cors(
                 Or(strip(exc.text),
                    << "Invalid data type provided. Please check your input format." >>),
                 << >>, 400),
             << LogRec("warning", "TypeError") >>, "none")

\* global_exception_handler putting str(exc) in the detail
global_exception_handler_leaky(exc) ==
    Returned(json_response_with_cors(
                 << "An unexpected error occurred: " >> \o exc.text, << >>, 500),
             << LogRec("error", "Unhandled exception") >>, "none")

global_exception_handler(exc) ==
    Returned(json_response_with_cors(
                 << "An unexpected error occurred. Please contact support." >>, << >>, 500),
             << LogRec("error", "Unhandled exception") >>, "none")

jwt_error_handler(exc) ==
    LET detail_msg ==
            IF isinstance(exc, "ExpiredSignatureError")
            THEN << "Authentication token has expired. Please log in again." >>
            ELSE << "Invalid authentication token. Please provide a valid token." >>
    IN  Returned(json_response_with_cors(detail_msg, << >>, 401),
                 << LogRec("warning", "JWT error") >>, "none")

json_decode_error_handler(exc) ==
    Returned(json_response_with_cors(
                 << "Invalid JSON at line ", ToString(exc.lineno), ", column ",
                    ToString(exc.colno), ": " >> \o exc.msg, << >>, 400),
             << LogRec("warning", "JSONDecodeError") >>, "none")

\* ------------------------------------------------------------ registration

\* every class that can key app.exception_handlers
ClassKeys ==
    { "RequestValidationError", "ValidationException", "HTTPException",
      "StarletteHTTPException", "IntegrityError", "DataError", "OperationalError",
      "ProgrammingError", "InternalError", "InterfaceError", "NoResultFound",
      "InvalidRequestError", "DatabaseError", "DBAPIError", "StatementError",
      "SQLAlchemyError", "TimeoutError", "PermissionError", "FileNotFoundError",
      "OSError", "ExpiredSignatureError", "JWTError", "JSONDecodeError",
      "ValueError", "TypeError", "KeyError", "IndexError", "LookupError",
      "AttributeError", "RuntimeError", "HTTPStatusError", "ReadTimeout",
      "TimeoutException", "TransportError", "RequestError", "HTTPError",
      "ConnectError", "NetworkError", "Exception" }

\* FastAPI(...): the handlers every FastAPI app starts with
FastAPIDefaults ==
    [k \in ClassKeys |->
        CASE k = "StarletteHTTPException" -> "fastapi.http_exception_handler"
          [] k = "RequestValidationError" -> "fastapi.request_validation_exception_handler"
          [] OTHER -> "none"]

\* the @app.exception_handler(...) decorators of exception_handler.py, in
\* the order the module runs them (HTTPException is registered twice, by two
\* functions of the same name that build the same response)
Registrations ==
    << << "RequestValidationError", "validation_exception_handler" >>,
       << "HTTPException",    "http_exception_handler" >>,
       << "SQLAlchemyError",  "database_exception_handler" >>,
       << "IntegrityError",   "integrity_error_handler" >>,
       << "DataError",        "data_error_handler" >>,
       << "OperationalError", "operational_error_handler" >>,
       << "ProgrammingError", "programming_error_handler" >>,
       << "InterfaceError",   "interface_error_handler" >>,
       << "TimeoutError",     "timeout_error_handler" >>,
       << "PermissionError",  "permission_error_handler" >>,
       << "HTTPException",    "http_exception_handler" >>,
       << "ValueError",       "value_error_handler" >>,
       << "TypeError",        "type_error_handler" >>,
       << "Exception",        "global_exception_handler" >>,
       << "JWTError",         "jwt_error_handler" >>,
       << "JSONDecodeError",  "json_decode_error_handler" >> >>

RECURSIVE add_exception_handlers(_, _)
\* app.exception_handlers[key] = handler, for each registration in turn
add_exception_handlers(handlers, regs) ==
    IF regs = << >> THEN handlers
    ELSE add_exception_handlers([handlers EXCEPT ![Head(regs)[1]] = Head(regs)[2]],
                                Tail(regs))

CustomHandlers == {Registrations[i][2] : i \in 1..Len(Registrations)}

\* ------------------------------------------------ the framework's handlers

\* fastapi.exception_handlers.http_exception_handler
fastapi_http_exception_handler(exc) ==
    IF exc.status_code < 200 \/ exc.status_code \in {204, 205, 304}
    THEN Returned(Resp(exc.status_code, "text", << >>, << >>, NoBody, "none", "none", << >>),
                  << >>, "none")
    ELSE Returned(Resp(exc.status_code, "json", exc.detail, << >>, NoBody, "none", "none", << >>),
                  << >>, "none")

\* fastapi.exception_handlers.request_validation_exception_handler
fastapi_request_validation_exception_handler(exc) ==
    Returned(Resp(422, "json", exc.errors, << >>, NoBody, "none", "none", << >>),
             << >>, "none")

\* ServerErrorMiddleware.error_response with debug off
server_error_response ==
    Resp(500, "text", << "Internal Server Error" >>, << >>, NoBody, "none", "none", << >>)

\* the handler function behind a registered name
Run(h, exc) ==
    CASE h = "validation_exception_handler" -> validation_exception_handler(exc)
      [] h = "http_exception_handler"       -> http_exception_handler(exc)
      [] h = "database_exception_handler"   -> database_exception_handler(exc)
      [] h = "integrity_error_handler"      -> integrity_error_handler(exc)
      [] h = "data_error_handler"           -> data_error_handler(exc)
      [] h = "operational_error_handler"    -> operational_error_handler(exc)
      [] h = "programming_error_handler"    -> programming_error_handler(exc)
      [] h = "interface_error_handler"      -> interface_error_handler(exc)
      [] h = "timeout_error_handler"        -> timeout_error_handler(exc)
      [] h = "permission_error_handler"     -> permission_error_handler(exc)
      [] h = "value_error_handler"          -> value_error_handler(exc)
      [] h = "type_error_handler"           -> type_error_handler(exc)
      [] h = "global_exception_handler"     -> global_exception_handler(exc)
      [] h = "jwt_error_handler"            -> jwt_error_handler(exc)
      [] h = "json_decode_error_handler"    -> json_decode_error_handler(exc)
      [] h = "fastapi.http_exception_handler" -> fastapi_http_exception_handler(exc)
      [] h = "fastapi.request_validation_exception_handler"
                                            -> fastapi_request_validation_exception_handler(exc)

\* ExceptionMiddleware's lookup: the handler of the first class of the
\* fault's MRO that has one. The Exception key is not in its table: FastAPI
\* hands that handler to ServerErrorMiddleware.
lookup_handler(handlers, exc) ==
    LET mro  == MRO(exc.cls)
        hits == {i \in 1..Len(mro) : mro[i] # "Exception" /\ handlers[mro[i]] # "none"}
    IN  IF hits = {} THEN "none"
        ELSE handlers[mro[CHOOSE i \in hits : \A j \in hits : i <= j]]

\* ------------------------------------------------------------ the pipeline

\* What a route body gives: the fault it raised (NoFault: it returned body),
\* the answers to the upstream calls it made, and the write transaction it ran in
\* (tx: "none" | "active"; dep: the session came from Depends(get_write_session)).
RouteResult(exc, body, calls, tx, dep) ==
    [fault |-> exc, body |-> body, calls |-> calls, tx |-> tx, dep |-> dep]

Returns(body, calls) == RouteResult(NoFault, body, calls, "none", FALSE)
Raises(exc, calls)   == RouteResult(exc, NoBody, calls, "none", FALSE)

\* What a layer of the app gives: the response, or the exception that
\* escaped it; ran tells whether the route body was entered at all.
Outcome(resp, escaped, hs, logs, ran) ==
    [resp |-> resp, escaped |-> escaped, invoked |-> hs, log |-> logs, ran |-> ran]

Invocation(h, r) == [handler |-> h, raised |-> r.raised, rollback |-> r.rollback]

\* what ExceptionMiddleware makes of handler h having run with result r
handled(h, r) ==
    IF r.raised
    THEN Outcome(NoResponse, r.exc, << Invocation(h, r) >>, r.log, TRUE)
    ELSE Outcome(r.resp, NoFault, << Invocation(h, r) >>, r.log, TRUE)

dispatch(h, exc) ==
    IF h = "none" THEN Outcome(NoResponse, exc, << >>, << >>, TRUE)
    ELSE handled(h, Run(h, exc))

\* ExceptionMiddleware around the router
exception_middleware(handlers, rr) ==
    IF rr.fault = NoFault
    THEN Outcome(Resp(200, "json", << >>, << >>, rr.body, "none", "none", << >>),
                 NoFault, << >>, << >>, TRUE)
    ELSE dispatch(lookup_handler(handlers, rr.fault), rr.fault)

\* CORSMiddleware(allow_origins=["*"], allow_credentials=True) on a simple
\* request: untouched without an Origin header; otherwise the headers are
\* set on the response, "*" giving way to the request's origin when the
\* request carries a cookie. An exception passes through it.
CORSMiddleware(req, out) ==
    IF out.escaped # NoFault \/ ~req.origin THEN out
    ELSE [out EXCEPT !.resp.acao = IF req.cookie THEN "origin" ELSE "*",
                     !.resp.acac = "true"]

\* path_conversion forgetting the base path
path_conversion_plain(path) == path

path_conversion(path) ==
    IF base_path = << "/" >> THEN path ELSE base_path \o path

RedirectResponse(url) ==
    Resp(307, "redirect", << >>, << >>, NoBody, "none", "none", url)

enforce_root_path(req, out) ==
    IF ~StartsWith(req.path, base_path)
    THEN Outcome(RedirectResponse(path_conversion(req.path)), NoFault, << >>, << >>, FALSE)
    ELSE out

RECURSIVE middleware_stack(_, _, _)
\* the user middleware around the app, mws[1] outermost
middleware_stack(mws, req, inner) ==
    IF mws = << >> THEN inner
    ELSE LET below == middleware_stack(Tail(mws), req, inner)
         IN  IF Head(mws) = "enforce_root_path" THEN enforce_root_path(req, below)
             ELSE CORSMiddleware(req, below)

\* the response of the handler registered for Exception, after whatever
\* ran before it
error_response(h, r, out) ==
    Outcome(r.resp, NoFault, out.invoked \o << Invocation(h, r) >>,
            out.log \o r.log, out.ran)

\* ServerErrorMiddleware, outermost: it answers for whatever escapes
ServerErrorMiddleware(handlers, out) ==
    IF out.escaped = NoFault THEN out
    ELSE IF handlers["Exception"] = "none"
    THEN Outcome(server_error_response, NoFault, out.invoked, out.log, out.ran)
    ELSE error_response(handlers["Exception"],
                        Run(handlers["Exception"], out.escaped), out)

\* app(scope, receive, send)
app(req, rr) ==
    ServerErrorMiddleware(exception_handlers,
        middleware_stack(user_middleware, req,
            exception_middleware(exception_handlers, rr)))

\* the write transaction once the response is out: get_write_session's
\* `except` rolls it back as the fault leaves the dependency; a handler's
\* own rollback would too
session_after(rr, out) ==
    IF ~out.ran THEN "none"
    ELSE IF rr.tx = "active" /\ rr.fault # NoFault /\ rr.dep THEN "rolled_back"
    ELSE IF rr.tx = "active" /\ \E i \in 1..Len(out.invoked) : out.invoked[i].rollback = "done"
    THEN "rolled_back"
    ELSE rr.tx

\* ------------------------------------------------------------------ inputs

\* the sequences over S of length 0..n
SeqsUpTo(S, n) == UNION {[1..k -> S] : k \in 0..n}

\* exception messages
Texts == { << >>, << " " >>, << "boom" >>, << "boom", "\n", "at /srv/app.py:12" >> }

\* what the store puts in orig.diag
Diags ==
    {NoDiag} \cup
    { Diag(col, primary, detail) :
        col \in {<< >>, << "age" >>},
        primary \in {<< >>, << "out of range" >>, << "syntax error", "\n", "LINE 1" >>},
        detail \in {<< >>, << "value too long" >>} }

StoreFaults ==
    { DBExc(cls, text, diag, << >>) :
        cls \in {"DataError", "OperationalError", "ProgrammingError", "InterfaceError"},
        text \in Texts, diag \in Diags }
    \cup { Exc(cls, text) : cls \in {"InternalError", "NoResultFound"}, text \in Texts }

\* 'Key (<field>)=(<value>)'
KeyText(field, value) ==
    << "Key ", "(" >> \o field \o << ")", "=", "(" >> \o value \o << ")" >>

IntegrityTexts ==
    { << >>, << "duplicate key " >>,
      KeyText(<< "id" >>, << "7" >>) \o KeyText(<< "email" >>, << "a@b.com" >>),
      << "Key ", "(", "id", ")", "=", "(", "7" >> \o KeyText(<< "email" >>, << "a@b.com" >>) }
    \cup
    { pre \o KeyText(f, v) \o << " already exists." >> :
        pre \in {<< >>, << "duplicate key " >>},
        f \in SeqsUpTo({"email", ")"}, MaxPart),
        v \in SeqsUpTo({"a@b.com", ")"}, MaxPart) }

IntegrityFaults ==
    { DBExc("IntegrityError", text, diag, pgerror) :
        text \in IntegrityTexts,
        diag \in {NoDiag, Diag(<< >>, << >>, << >>),
                  Diag(<< "email" >>, << >>, << >>), Diag(<< "id" >>, << >>, << >>)},
        pgerror \in {<< >>, << "duplicate key " >>} }

HTTPFaults ==
    { HTTPExc("HTTPException", status, detail) :
        status \in {302, 401, 403, 404},
        detail \in {<< >>, << "Not authenticated" >>} }

OtherFaults ==
    { Exc(cls, text) :
        cls \in {"PermissionError", "ValueError", "TypeError", "KeyError", "RuntimeError"},
        text \in Texts }
    \cup { Exc("TimeoutError", << >>),
           Exc("ExpiredSignatureError", << "Signature has expired." >>),
           Exc("JWTError", << "Signature verification failed." >>),
           JSONExc(3, 5, << "Expecting value" >>) }

\* what the upstream judge does with the one call: a status with a JSON
\* body, a status with a body that is no JSON, or no answer in time
UpstreamStatuses == {200, 201, 302, 404, 429, 500}

UpstreamJSON == [kind |-> "object", items |-> << [token |-> "d85cd024"] >>]

UpstreamAnswers ==
    { [kind |-> k, status |-> st] : k \in {"json", "garbage"}, st \in UpstreamStatuses }
    \cup { [kind |-> "timeout", status |-> 0] }

\* the request's headers and whether its path carries base_path
Clients ==
    { [origin |-> o, cookie |-> c, prefixed |-> p] :
        o \in BOOLEAN, c \in BOOLEAN, p \in BOOLEAN }

Path(client, route_path) ==
    IF client.prefixed /\ base_path # << "/" >> THEN base_path \o route_path ELSE route_path

Request(client, method, route_path) ==
    [method |-> method, path |-> Path(client, route_path),
     origin |-> client.origin, cookie |-> client.origin /\ client.cookie]

NoRequest == [method |-> "", path |-> << >>, origin |-> FALSE, cookie |-> FALSE]

Problem(id) == [id |-> id, title |-> "two sum"]

\* problems.json as it is when the process starts
ProblemsAtStartup == [state |-> "ok", problems |-> << Problem(1), Problem(2) >>]

ProblemFiles ==
    { [state |-> "missing", problems |-> << >>],
      [state |-> "malformed", problems |-> << >>],
      [state |-> "ok", problems |-> << Problem(2) >>],
      ProblemsAtStartup }

ProblemIds == {1, 2, 999999}

\* --------------------------------------------------------------- start-up

\* app.add_middleware / @app.middleware: the newest middleware is outermost
add_middleware(mws, m) == << m >> \o mws

Init ==
    /\ entry \in {"main:app", "app.utils.exception_handler:app"}
    /\ base_path \in {<< "/" >>, << "/", "a" >>}
    /\ modules = {}
    /\ exception_handlers = [k \in ClassKeys |-> "none"]
    /\ user_middleware = << >>
    /\ phase = "boot"
    /\ problems_json = ProblemsAtStartup
    /\ request = NoRequest
    /\ fault = NoFault
    /\ invoked = << >>
    /\ log = << >>
    /\ session = "none"
    /\ upstream_calls = << >>
    /\ response = NoResponse

\* main.py runs: the app, its two middlewares and the router; it imports
\* app.api.routers, app.core.config, app.core.db, app.core.base_model and
\* logs.logging, and nothing else of the repository
import_main ==
    /\ phase = "boot"
    /\ "main" \notin modules
    /\ modules' = modules \cup {"main", "app.api.routers", "app.core.config",
                                "app.core.db", "app.core.base_model", "logs.logging"}
    /\ exception_handlers' = FastAPIDefaults
    /\ user_middleware' =
           add_middleware(add_middleware(<< >>, "CORSMiddleware"), "enforce_root_path")
    /\ UNCHANGED << entry, base_path, phase, problems_json, request, fault, invoked,
                    log, session, upstream_calls, response >>

\* app/utils/exception_handler.py runs (after its `from main import app`):
\* only when something imports it, and main.py does not
import_exception_handler ==
    /\ phase = "boot"
    /\ entry = "app.utils.exception_handler:app"
    /\ "main" \in modules
    /\ "app.utils.exception_handler" \notin modules
    /\ modules' = modules \cup {"app.utils.exception_handler"}
    /\ exception_handlers' = add_exception_handlers(exception_handlers, Registrations)
    /\ UNCHANGED << entry, base_path, user_middleware, phase, problems_json, request,
                    fault, invoked, log, session, upstream_calls, response >>

\* uvicorn has imported the module of its target and starts serving
startup ==
    /\ phase = "boot"
    /\ IF entry = "main:app" THEN "main" \in modules
       ELSE "app.utils.exception_handler" \in modules
    /\ phase' = "idle"
    /\ UNCHANGED << entry, base_path, modules, exception_handlers, user_middleware,
                    problems_json, request, fault, invoked, log, session,
                    upstream_calls, response >>

\* ---------------------------------------------------------------- requests

\* the app answers req, whose route body gives rr
Answer(req, rr) ==
    \E out \in {app(req, rr)} :
        /\ phase' = "responded"
        /\ request' = req
        /\ response' = out.resp
        /\ fault' = IF out.ran THEN rr.fault ELSE NoFault
        /\ invoked' = out.invoked
        /\ log' = out.log
        /\ session' = session_after(rr, out)
        /\ upstream_calls' = IF out.ran THEN rr.calls ELSE << >>
        /\ UNCHANGED << entry, base_path, modules, exception_handlers,
                        user_middleware, problems_json >>

\* the response is out; nothing of the request is kept
response_sent ==
    /\ phase = "responded"
    /\ phase' = "idle"
    /\ request' = NoRequest
    /\ fault' = NoFault
    /\ invoked' = << >>
    /\ log' = << >>
    /\ session' = "none"
    /\ upstream_calls' = << >>
    /\ response' = NoResponse
    /\ UNCHANGED << entry, base_path, modules, exception_handlers,
                    user_middleware, problems_json >>

\* somebody rewrites problems.json while the server runs
edit_problems_file ==
    /\ phase = "idle"
    /\ problems_json' \in ProblemFiles \ {problems_json}
    /\ UNCHANGED << entry, base_path, modules, exception_handlers, user_middleware,
                    phase, request, fault, invoked, log, session, upstream_calls,
                    response >>

\* Depends(get_current_user): the caller's identity, or any fault of the
\* auth gate and of the store behind it; a store fault leaves a write
\* transaction open, obtained through Depends(get_write_session) or not
get_current_user ==
    { Returns([kind |-> "object", items |-> << [message |-> "Hello, fuser-1!"] >>], << >>) }
    \cup { Raises(f, << >>) : f \in HTTPFaults \cup OtherFaults }
    \cup { RouteResult(f, NoBody, << >>, "active", dep) :
             f \in StoreFaults \cup IntegrityFaults, dep \in BOOLEAN }

\* GET /
check ==
    /\ phase = "idle"
    /\ \E client \in Clients, rr \in get_current_user :
        Answer(Request(client, "GET", << "/" >>), rr)

\* load_problems answering from a list kept since the process started
load_problems_cached ==
    Returns([kind |-> "list", items |-> ProblemsAtStartup.problems], << >>)

\* open("problems.json") and json.load
load_problems ==
    CASE problems_json.state = "missing" ->
             Raises(Exc("FileNotFoundError", << "No such file or directory: 'problems.json'" >>), << >>)
      [] problems_json.state = "malformed" ->
             Raises(JSONExc(1, 1, << "Expecting value" >>), << >>)
      [] OTHER -> Returns([kind |-> "list", items |-> problems_json.problems], << >>)

\* GET /problems
get_problems ==
    /\ phase = "idle"
    /\ \E client \in Clients :
        Answer(Request(client, "GET", << "/", "problems" >>), load_problems)

\* find_problem answering a missing id with a 404 fault instead of a body
find_problem_raising(problems, problem_id, hits) ==
    IF hits = {}
    THEN Raises(HTTPExc("HTTPException", 404, << "Problem not found" >>), << >>)
    ELSE Returns([kind |-> "object",
                  items |-> << problems[CHOOSE i \in hits : \A j \in hits : i <= j] >>], << >>)

\* next((p for p in problems if p["id"] == problem_id), None), then the
\* `if not problem` test
find_problem(problems, problem_id, hits) ==
    IF hits = {}
    THEN Returns([kind |-> "object", items |-> << [error |-> "Problem not found"] >>], << >>)
    ELSE Returns([kind |-> "object",
                  items |-> << problems[CHOOSE i \in hits : \A j \in hits : i <= j] >>], << >>)

\* the body of get_problem
lookup_problem(loaded, problem_id) ==
    IF loaded.fault # NoFault THEN loaded
    ELSE find_problem(loaded.body.items, problem_id,
                      {i \in 1..Len(loaded.body.items) : loaded.body.items[i].id = problem_id})

\* GET /problems/{problem_id}; a problem_id that is no integer fails validation
get_problem ==
    /\ phase = "idle"
    /\ \E client \in Clients, problem_id \in ProblemIds, is_int \in BOOLEAN :
        Answer(Request(client, "GET",
                       << "/", "problems", "/",
                          IF is_int THEN ToString(problem_id) ELSE "abc" >>),
               IF is_int THEN lookup_problem(load_problems, problem_id)
               ELSE Raises(ValidationExc(<< "problem_id: Input should be a valid integer" >>), << >>))

\* upstream trying a second time when the judge refuses or does not answer
upstream_retrying(answer) ==
    IF answer.kind = "timeout"
    THEN Raises(Exc("ReadTimeout", << >>), << answer, answer >>)
    ELSE IF ~(200 <= answer.status /\ answer.status <= 299)
    THEN Raises(Exc("HTTPStatusError",
                    << "Error '", ToString(answer.status), "' for url" >>),
                << answer, answer >>)
    ELSE IF answer.kind = "garbage"
    THEN Raises(JSONExc(1, 1, << "Expecting value" >>), << answer >>)
    ELSE Returns(UpstreamJSON, << answer >>)

\* one `async with httpx.AsyncClient()` block: one call, raise_for_status,
\* response.json()
upstream(answer) ==
    IF answer.kind = "timeout"
    THEN Raises(Exc("ReadTimeout", << >>), << answer >>)
    ELSE IF ~(200 <= answer.status /\ answer.status <= 299)
    THEN Raises(Exc("HTTPStatusError",
                    << "Error '", ToString(answer.status), "' for url" >>), << answer >>)
    ELSE IF answer.kind = "garbage"
    THEN Raises(JSONExc(1, 1, << "Expecting value" >>), << answer >>)
    ELSE Returns(UpstreamJSON, << answer >>)

\* POST /submit; a body that is no UserProgram fails validation
submit_code ==
    /\ phase = "idle"
    /\ \E client \in Clients, answer \in UpstreamAnswers, is_valid \in BOOLEAN :
        Answer(Request(client, "POST", << "/", "submit" >>),
               IF is_valid THEN upstream(answer)
               ELSE Raises(ValidationExc(<< "body.language_id: Field required" >>), << >>))

\* GET /submissions
get_submissions ==
    /\ phase = "idle"
    /\ \E client \in Clients, answer \in UpstreamAnswers :
        Answer(Request(client, "GET", << "/", "submissions" >>), upstream(answer))

\* GET /submit/{submission_id}
get_submission ==
    /\ phase = "idle"
    /\ \E client \in Clients, answer \in UpstreamAnswers :
        Answer(Request(client, "GET", << "/", "submit", "/", "d85cd024" >>), upstream(answer))

\* GET /system_info
get_system_info ==
    /\ phase = "idle"
    /\ \E client \in Clients, answer \in UpstreamAnswers :
        Answer(Request(client, "GET", << "/", "system_info" >>), upstream(answer))

\* GET /statistics
get_statistics ==
    /\ phase = "idle"
    /\ \E client \in Clients, answer \in UpstreamAnswers :
        Answer(Request(client, "GET", << "/", "statistics" >>), upstream(answer))

\* GET /languages
get_languages ==
    /\ phase = "idle"
    /\ \E client \in Clients, answer \in UpstreamAnswers :
        Answer(Request(client, "GET", << "/", "languages" >>), upstream(answer))

Next ==
    \/ import_main
    \/ import_exception_handler
    \/ startup
    \/ check
    \/ get_problems
    \/ get_problem
    \/ submit_code
    \/ get_submissions
    \/ get_submission
    \/ get_system_info
    \/ get_statistics
    \/ get_languages
    \/ response_sent
    \/ edit_problems_file

Spec == Init /\ [][Next]_vars

\* ------------------------------------------------------------------ claims

Responded == phase = "responded"

\* every decorator of exception_handler.py has run on the app that serves
HandlersRegistered ==
    \A i \in 1..Len(Registrations) :
        exception_handlers[Registrations[i][1]] = Registrations[i][2]

\* the fault classes of the classification table
KnownClasses ==
    { "RequestValidationError", "HTTPException", "IntegrityError", "DataError",
      "OperationalError", "ProgrammingError", "InterfaceError", "TimeoutError",
      "PermissionError", "ExpiredSignatureError", "JWTError", "JSONDecodeError",
      "ValueError", "TypeError" }

\* the status the classification table gives a fault of a known kind
TableStatus(f) ==
    CASE f.cls = "RequestValidationError" -> 422
      [] f.cls = "HTTPException"    -> f.status_code
      [] f.cls = "IntegrityError"   -> 409
      [] f.cls = "DataError"        -> 422
      [] f.cls = "OperationalError" -> 503
      [] f.cls = "ProgrammingError" -> 500
      [] f.cls = "InterfaceError"   -> 503
      [] f.cls = "TimeoutError"     -> 504
      [] f.cls = "PermissionError"  -> 403
      [] f.cls \in {"ExpiredSignatureError", "JWTError"} -> 401
      [] f.cls \in {"JSONDecodeError", "ValueError", "TypeError"} -> 400

\* C1: on the app with every handler registered, a fault of a known kind is
\* answered by the handler registered for its most specific class, and the
\* response has the status of the classification table.
C1_KnownKindGetsTableStatus ==
    (Responded /\ HandlersRegistered /\ fault.cls \in KnownClasses)
        => /\ Len(invoked) = 1
           /\ ~invoked[1].raised
           /\ response.status_code = TableStatus(fault)

\* the upstream answered the one call with a status outside 200..299
UpstreamRefused ==
    /\ Len(upstream_calls) = 1
    /\ upstream_calls[1].kind # "timeout"
    /\ ~(200 <= upstream_calls[1].status /\ upstream_calls[1].status <= 299)

\* C2: when the upstream judge answers a proxied request with a non-2xx
\* status s, the request fails with an http-kind fault and the caller's
\* response has status s (stated of the app with every handler registered).
C2_UpstreamStatusPropagated ==
    (Responded /\ HandlersRegistered /\ UpstreamRefused)
        => /\ isinstance(fault, "StarletteHTTPException")
           /\ response.status_code = upstream_calls[1].status

\* the one upstream call got no answer within the client's timeout
UpstreamTimedOut ==
    /\ Len(upstream_calls) = 1
    /\ upstream_calls[1].kind = "timeout"

\* C3: when the upstream call of a proxied request times out, the request
\* fails with a timeout-kind fault and the caller gets 504 with the fixed
\* timed-out message (stated of the app with every handler registered).
C3_UpstreamTimeoutGives504 ==
    (Responded /\ HandlersRegistered /\ UpstreamTimedOut)
        => /\ isinstance(fault, "TimeoutError")
           /\ response.status_code = 504
           /\ response.detail = << "Request processing timed out. Please try again later." >>

\* C4: whenever the app serves, the handlers of exception_handler.py are
\* registered on it.
C4_HandlersRegisteredWhenServing ==
    phase # "boot" => HandlersRegistered

\* the response is the one a handler of exception_handler.py built
BuiltByClassifier ==
    /\ Responded
    /\ invoked # << >>
    /\ invoked[Len(invoked)].handler \in CustomHandlers
    /\ ~invoked[Len(invoked)].raised

\* C5: every response sent, success, classified error or base-path redirect,
\* carries Access-Control-Allow-Origin: * with or without an Origin header on
\* the request.
C5_EveryResponseAllowsAnyOrigin ==
    Responded => response.acao = "*"

\* no class of the fault but Exception has a handler
Unhandled(f) ==
    /\ f # NoFault
    /\ \A i \in 1..Len(MRO(f.cls)) :
           MRO(f.cls)[i] = "Exception" \/ exception_handlers[MRO(f.cls)[i]] = "none"

\* the one body every unhandled fault gets from this app
GenericDetail ==
    IF exception_handlers["Exception"] = "global_exception_handler"
    THEN << "An unexpected error occurred. Please contact support." >>
    ELSE << "Internal Server Error" >>

\* no token of the fault's diagnostic text is in the response
NoDiagnosticText ==
    \A i \in 1..Len(fault.text) : ~Contains(response.detail, << fault.text[i] >>)

\* C6: a fault that no kind-specific handler matches is answered 500 with
\* one fixed body, whatever its diagnostic text, and the body holds none of
\* that text; so is a store fault that only the SQLAlchemyError handler matches.
C6_UnhandledFaultGetsGeneric500 ==
    /\ (Responded /\ Unhandled(fault)) =>
           /\ response.status_code = 500
           /\ response.detail = GenericDetail
           /\ response.errors = << >>
           /\ response.body = NoBody
           /\ NoDiagnosticText
    /\ (BuiltByClassifier /\ invoked[1].handler = "database_exception_handler") =>
           /\ response.status_code = 500
           /\ response.detail = << "A database error occurred. Please try again later." >>
           /\ NoDiagnosticText

C6_Witness ==
    /\ Responded
    /\ HandlersRegistered
    /\ Unhandled(fault)
    /\ fault.cls = "KeyError"
    /\ fault.text = << "boom", "\n", "at /srv/app.py:12" >>
    /\ response.status_code = 500

\* C7: a store fault is answered only after a rollback of the write
\* transaction was attempted, by the handler or by the session dependency
\* (stated of the app with every handler registered).
C7_RollbackAttemptedForStoreFaults ==
    (Responded /\ HandlersRegistered /\ isinstance(fault, "SQLAlchemyError"))
        => \/ session = "rolled_back"
           \/ \E i \in 1..Len(invoked) : invoked[i].rollback # "none"

\* C8: no handler of exception_handler.py raises, whatever the fault
\* carries (stated of the app with every handler registered).
C8_ClassifierNeverRaises ==
    (Responded /\ HandlersRegistered)
        => \A i \in 1..Len(invoked) : ~invoked[i].raised

\* C9 as stated: every response a classifier builds has a status in
\* 400..599 and a detail that is not empty.
C9_StatusInRangeDetailNotEmpty ==
    BuiltByClassifier =>
        /\ response.status_code \in 400..599
        /\ response.detail # << >>

\* C9 amended: for an explicit HTTP fault the response has exactly the
\* fault's status and detail, whatever they are; every other response a
\* classifier builds has a status in 400..599 and a detail that is not empty,
\* a permission fault's being its own message or the fallback.
C9_RangeExceptHTTPPassthrough ==
    BuiltByClassifier =>
        /\ invoked[Len(invoked)].handler = "http_exception_handler" =>
               /\ response.status_code = fault.status_code
               /\ response.detail = fault.detail
        /\ invoked[Len(invoked)].handler # "http_exception_handler" =>
               /\ response.status_code \in 400..599
               /\ response.detail # << >>
        /\ invoked[Len(invoked)].handler = "permission_error_handler" =>
               response.detail =
                   IF fault.text # << >> THEN fault.text
                   ELSE << "You do not have permission to perform this action." >>

C9_Witness ==
    /\ BuiltByClassifier
    /\ invoked[1].handler = "permission_error_handler"
    /\ fault.text = << >>
    /\ response.status_code = 403
    /\ response.detail # << >>

\* text[i..] is the clause  Key (<field>)=(<value>)  whose brackets close
\* at j and k, field and value not empty and free of ")"
KeyClauseAt(text, i, j, k) ==
    /\ i + 2 < j /\ j + 3 < k /\ k <= Len(text)
    /\ text[i] = "Key " /\ text[i + 1] = "("
    /\ text[j] = ")" /\ text[j + 1] = "=" /\ text[j + 2] = "("
    /\ text[k] = ")"
    /\ \A n \in (i + 2)..(j - 1) : text[n] # ")"
    /\ \A n \in (j + 3)..(k - 1) : text[n] # ")"

\* no such clause starts before position i
FirstKeyAt(text, i) ==
    \A n \in 1..(i - 1) :
        ~\E j \in 1..Len(text), k \in 1..Len(text) : KeyClauseAt(text, n, j, k)

AlreadyExists(field, value) ==
    field \o << " '" >> \o value \o << "' already exists." >>

\* the detail is  <field> '<value>' already exists.  for the first
\* Key (<field>)=(<value>)  of the fault's text, if it has one
DetailNamesFirstKeyClause ==
    \A i \in 1..Len(fault.text), j \in 1..Len(fault.text), k \in 1..Len(fault.text) :
        (KeyClauseAt(fault.text, i, j, k) /\ FirstKeyAt(fault.text, i))
            => /\ response.status_code = 409
               /\ response.detail = AlreadyExists(SubSeq(fault.text, i + 2, j - 1),
                                                  SubSeq(fault.text, j + 3, k - 1))

\* C10 as stated: an integrity fault whose text holds Key (<field>)=(<value>)
\* is answered 409 with  <field> '<value>' already exists.  whether or not
\* the store also supplied a column name.
C10_KeyClauseNamesFieldAndValue ==
    (BuiltByClassifier /\ invoked[1].handler = "integrity_error_handler")
        => DetailNamesFirstKeyClause

\* C10 amended: the same, for the faults that come without a column name
\* (the first Key (...)=(...) of the text, field and value free of ")").
C10_KeyClauseWithoutColumnName ==
    (/\ BuiltByClassifier
     /\ invoked[1].handler = "integrity_error_handler"
     /\ ~(fault.diag.present /\ fault.diag.column_name # << >>))
        => DetailNamesFirstKeyClause

C10_Witness ==
    /\ BuiltByClassifier
    /\ invoked[1].handler = "integrity_error_handler"
    /\ ~fault.diag.present
    /\ fault.text = KeyText(<< "email" >>, << "a@b.com" >>) \o << " already exists." >>
    /\ response.status_code = 409
    /\ response.detail = << "email", " '", "a@b.com", "' already exists." >>

\* the store supplied a column name with the fault
HasColumn(f) == f.diag.present /\ f.diag.column_name # << >>

\* some Key (<field>)=(<value>) clause stands in the text
HasKeyClause(text) ==
    \E i \in 1..Len(text), j \in 1..Len(text), k \in 1..Len(text) :
        KeyClauseAt(text, i, j, k)

\* the first line of the text is empty
FirstLineEmpty(text) == text = << >> \/ text[1] = "\n"

\* the fault went to the handler h first
ClassifiedBy(h) == Responded /\ invoked # << >> /\ invoked[1].handler = h

\* C11: the extraction of the integrity and data-error classifiers is
\* two-tier and order-preserving: with a structured column name the detail
\* is built from it and the text's Key clause is not used; without one the
\* text decides; and when neither yields anything the response is the
\* kind's status with exactly the kind's generic fallback message.
C11_TwoTierExtraction ==
    /\ ClassifiedBy("integrity_error_handler") =>
           /\ response.status_code = 409
           /\ HasColumn(fault) => Contains(response.detail, fault.diag.column_name)
           /\ (~HasColumn(fault) /\ ~HasKeyClause(fault.text)) =>
                  response.detail = << "A record with that value already exists." >>
    /\ ClassifiedBy("data_error_handler") =>
           /\ response.status_code = 422
           /\ HasColumn(fault) => Contains(response.detail, fault.diag.column_name)
           /\ (~HasColumn(fault) /\ FirstLineEmpty(fault.text)) =>
                  response.detail = << "Invalid data format." >>

\* the request went past enforce_root_path to its route
ReachedRoute == Responded /\ response.media # "redirect"

\* the request is method on route_path, with or without the base path
IsRequest(method, route_path) ==
    /\ request.method = method
    /\ request.path \in {route_path, base_path \o route_path}

ProblemRoute(id) == << "/", "problems", "/", ToString(id) >>

NotFoundBody == [kind |-> "object", items |-> << [error |-> "Problem not found"] >>]

\* the body is the first record of the list whose id is id, as it is
IsRecordOf(body, problems, id) ==
    \E i \in 1..Len(problems) :
        /\ problems[i].id = id
        /\ \A j \in 1..(i - 1) : problems[j].id # id
        /\ body = [kind |-> "object", items |-> << problems[i] >>]

\* C12: with the problem list readable, GET /problems/{problem_id} answers
\* 200 with {"error": "Problem not found"} for an integer id that no record
\* has, and 200 with the record itself, unmodified, for an id that one has.
C12_MissingProblemIs200 ==
    \A id \in ProblemIds :
        (ReachedRoute /\ IsRequest("GET", ProblemRoute(id)) /\ problems_json.state = "ok")
            => /\ response.status_code = 200
               /\ IF \E i \in 1..Len(problems_json.problems) :
                          problems_json.problems[i].id = id
                  THEN IsRecordOf(response.body, problems_json.problems, id)
                  ELSE response.body = NotFoundBody

C12_Witness ==
    /\ ReachedRoute
    /\ IsRequest("GET", ProblemRoute(999999))
    /\ problems_json.state = "ok"
    /\ response.status_code = 200
    /\ response.body = NotFoundBody

ProblemsRoute == << "/", "problems" >>

\* the body GET /problems gives for the list problems
ListBody(problems) == [kind |-> "list", items |-> problems]

ProxiedRoutes ==
    { << "/", "submit" >>, << "/", "submissions" >>, << "/", "submit", "/", "d85cd024" >>,
      << "/", "system_info" >>, << "/", "statistics" >>, << "/", "languages" >> }

IsProxied ==
    \E r \in ProxiedRoutes : request.path \in {r, base_path \o r}

\* C14: a request makes at most one upstream call: exactly one when the body
\* of a proxying route runs, whether the judge answers 2xx, answers non-2xx
\* or does not answer in time, and none on the routes served from the
\* problems file or the root; on success the caller gets the upstream JSON
\* as it is.
C14_OneUpstreamAttempt ==
    Responded =>
        /\ Len(upstream_calls) <= 1
        /\ (ReachedRoute /\ IsProxied /\ fault.cls # "RequestValidationError")
               => Len(upstream_calls) = 1
        /\ ~IsProxied => upstream_calls = << >>
        /\ (upstream_calls # << >> /\ fault = NoFault)
               => /\ response.status_code = 200
                  /\ response.body = UpstreamJSON

C14_Witness ==
    /\ Responded
    /\ IsRequest("POST", << "/", "submit" >>)
    /\ Len(upstream_calls) = 1
    /\ upstream_calls[1].kind = "timeout"
    /\ fault.cls = "ReadTimeout"

\* what the router would hand back for a request that enforce_root_path lets through
PassedOn == Outcome(NoResponse, NoFault, << >>, << >>, TRUE)

\* the request a client sends when it follows the redirect
Followed == [request EXCEPT !.path = response.location]

\* C15: a request whose path does not start with base_path is answered by a
\* redirect to base_path + path, which starts with base_path, so the request
\* that follows the redirect is let through by enforce_root_path and not
\* redirected again; a request whose path starts with base_path is never
\* redirected.
C15_RedirectedAtMostOnce ==
    Responded =>
        IF StartsWith(request.path, base_path)
        THEN response.media # "redirect"
        ELSE /\ response.media = "redirect"
             /\ response.status_code = 307
             /\ response.location = base_path \o request.path
             /\ StartsWith(response.location, base_path)
             /\ enforce_root_path(Followed, PassedOn) = PassedOn

C15_Witness ==
    /\ Responded
    /\ base_path = << "/", "a" >>
    /\ request.path = << "/", "problems" >>
    /\ response.media = "redirect"
    /\ response.location = << "/", "a", "/", "problems" >>

====
